---- MODULE Spec2Model ----
(***************************************************************************)
(* M800 internal keyway cycle (keyway/keyway_plugin.c) as a state machine. *)
(*                                                                         *)
(* float values are fixed-point numbers counted in ticks of 1/Scale mm;    *)
(* sys.position is counted in motor steps.  The planner buffer and the     *)
(* stepper that drains it are the motion executor the handlers talk to     *)
(* through mc_line() and protocol_buffer_synchronize().                    *)
(***************************************************************************)
EXTENDS Integers, Sequences, FiniteSets, TLC

VARIABLES pc, line, gc_block, feed_rate, status, user_mcode_prev, M800_DEBUG, feed_checked,
          sys_position, planner, frame, issued, stream, cycles

vars == <<pc, line, gc_block, feed_rate, status, user_mcode_prev, M800_DEBUG, feed_checked,
          sys_position, planner, frame, issued, stream, cycles>>

(* ----------------------------- bounds ---------------------------------- *)
BufferSize == 2
MaxPending == 1
MaxCycles  == 2

(* ------------------------ program constants ---------------------------- *)
M800_Internal == 800
Scale         == 4
StepsPerMM    == 2

\* places of the axes in the position and target tuples of the model
X_AXIS == 1
Z_AXIS == 2
Y_AXIS == 3

(* ------------------------- input value sets ---------------------------- *)
DValues    == {0, 8}
QValues    == {0, 40}
SValues    == {0, 2, 12, 60}
PValues    == {0, 2, 12}
RValues    == {0, 8}
LValues    == {0, 2}
HValues    == {0, 1, 2}
FeedValues == {0, 5}
MoveTargets == {<<20, 8, 0>>, <<20, 8, 12>>}

\* the words m800_validate claims, and the F word the core handles itself
M800Words == {"d", "q", "s", "p", "r", "l", "h"}
WordNames == M800Words \cup {"f"}

NoWords  == [w \in WordNames |-> FALSE]
NoValues == [w \in WordNames |-> 0]
NoBlock  == [user_mcode |-> 0, words |-> NoWords, values |-> NoValues]

\* A parsed block: a word that is absent from the line has its flag Off and
\* its value 0.
AllM800Blocks ==
    { [user_mcode |-> M800_Internal,
       words  |-> [d |-> TRUE, q |-> TRUE, s |-> TRUE, p |-> TRUE, r |-> TRUE,
                   l |-> wl, h |-> wh, f |-> wf],
       values |-> [d |-> vd, q |-> vq, s |-> vs, p |-> vp, r |-> vr,
                   l |-> IF wl THEN vl ELSE 0, h |-> IF wh THEN vh ELSE 0,
                   f |-> IF wf THEN vf ELSE 0]] :
      vd \in DValues, vq \in QValues, vs \in SValues, vp \in PValues,
      vr \in RValues, wl \in BOOLEAN, vl \in LValues,
      wh \in BOOLEAN, vh \in HValues, wf \in BOOLEAN, vf \in FeedValues }

\* the words of a block whose value no accepted block has
OddWords(blk) ==
    { w \in WordNames :
        \/ w \in {"d", "q", "s", "r"} /\ blk.values[w] = 0
        \/ w = "p" /\ blk.values.p \in {0, 12}
        \/ w = "l" /\ blk.words.l /\ blk.values.l = 0
        \/ w = "h" /\ blk.words.h /\ blk.values.h = 2 }

\* the M800 lines the program is given: every line with at most one such
\* word, with an F word too when it has none and no H word, and the lines
\* where every word is one
M800Blocks ==
    { blk \in AllM800Blocks :
        /\ Cardinality(OddWords(blk)) \in {0, 1, 7}
        /\ blk.words.f => (OddWords(blk) = {} /\ ~blk.words.h) }

OtherBlocks ==
    { [user_mcode |-> m, words |-> [NoWords EXCEPT !.p = TRUE],
       values |-> [NoValues EXCEPT !.p = 3]] : m \in {801, 802} }

Blocks == M800Blocks \cup OtherBlocks

(* --------------------------- arithmetic -------------------------------- *)
\* n / d rounded to the nearest integer, halves away from zero (d > 0)
RoundDiv(n, d) ==
    IF n >= 0 THEN (2 * n + d) \div (2 * d)
              ELSE -((2 * (-n) + d) \div (2 * d))

\* sys.position[axis] / settings.axis[axis].steps_per_mm, in ticks
StepsToMM(steps) == RoundDiv(steps * Scale, StepsPerMM)

\* planner/stepper: a target in ticks to motor steps
MMToSteps(t) == RoundDiv(t * StepsPerMM, Scale)

\* memcpy(target, sys.position, ...): the int32 step count n read as the bits
\* of a float.  For 0 <= n < 2^23 this is the denormal n * 2^-149 mm, zero to
\* the tick; the model keeps the step counts in that range.
StepBitsAsFloat(n) == CASE 0 <= n /\ n < 8388608 -> 0

\* slip: the full width is used where the half width belongs
d_center_FullWidth(Rbore, Cslot) ==
    LET m == 4 * Rbore * Rbore - 4 * Cslot * Cslot
    IN  IF m <= 0 THEN 0
        ELSE CHOOSE r \in 0..Rbore :
                 (2 * r - 1) * (2 * r - 1) <= m /\ m < (2 * r + 1) * (2 * r + 1)

\* sqrtf((Rbore * Rbore) - (halfC * halfC)) with halfC = Cslot * 0.5f,
\* rounded to the nearest tick:  sqrt(4 Rbore^2 - Cslot^2) / 2
d_center(Rbore, Cslot) ==
    LET m == 4 * Rbore * Rbore - Cslot * Cslot
    IN  IF m <= 0 THEN 0
        ELSE CHOOSE r \in 0..Rbore :
                 (2 * r - 1) * (2 * r - 1) <= m /\ m < (2 * r + 1) * (2 * r + 1)

\* slip: the half width is compared with the bore diameter
SlotExceedsBore_Diameter(Rbore, Cslot) == Cslot > 4 * Rbore

\* halfC > Rbore
SlotExceedsBore(Rbore, Cslot) == Cslot > 2 * Rbore

\* slip: (int)(Dcorr / P), the quotient truncated
Passes_Truncated(Dcorr, P) == Dcorr \div P

\* (int)ceilf(Dcorr / P)
CeilDiv(a, b) == (a + b - 1) \div b

Passes(Dcorr, P) == CeilDiv(Dcorr, P)

\* slip: the clamp to X_final is missing
XTarget_NoClamp(X_new_start, P, X_final, pass) == X_new_start + pass * P

\* X_target of a radial pass, clamped to X_final
XTarget(X_new_start, P, X_final, pass) ==
    LET t == X_new_start + pass * P
    IN  IF t > X_final THEN X_final ELSE t

(* ------------------------------ state ---------------------------------- *)
NoFrame ==
    [D |-> 0, Q |-> 0, W |-> 0, P |-> 0, R |-> 0, Lreps |-> 0,
     return_home |-> FALSE, X_start |-> 0, Z_start |-> 0,
     X_new_start |-> 0, Dcorr |-> 0, X_final |-> 0, g1_feed |-> 0,
     passes |-> 0, pass |-> 0, rep |-> 0, wp |-> 0,
     reads |-> 0, target |-> <<0, 0, 0>>]

\* slip: the plunge target carries an offset that grows from cycle to cycle
Waypoint_Drift(x, z, rapid, f) ==
    [X |-> x + (cycles - 1), Z |-> z, Y |-> frame.target[Y_AXIS],
     rapid |-> rapid, feed_rate |-> f, cycle |-> cycles]

\* the target array and plan data handed to mc_line: X and Z as the caller
\* set them, the other axis as target[] holds it
Waypoint(x, z, rapid, f) ==
    [X |-> x, Z |-> z, Y |-> frame.target[Y_AXIS], rapid |-> rapid,
     feed_rate |-> f, cycle |-> cycles]

\* M800_LOG(...): the line reaches the stream only when M800_DEBUG is set
M800_LOG(s, text) == IF M800_DEBUG = 1 THEN Append(s, text) ELSE s

Init ==
    /\ pc = "idle"
    /\ line = NoBlock
    /\ gc_block = NoBlock
    /\ feed_rate = 0
    /\ status = "Status_OK"
    /\ user_mcode_prev \in {"NULL", "prev"}
    /\ M800_DEBUG \in {0, 1}
    /\ feed_checked = 0
    /\ sys_position = <<0, 0, 0>>
    /\ planner = <<>>
    /\ frame = NoFrame
    /\ issued = <<>>
    /\ stream = <<>>
    /\ cycles = 0


(* ---------------- handlers registered before keyway_init ---------------- *)
\* stand-ins for the handler chain saved in user_mcode_prev: it knows M801
PrevCheck(mcode) ==
    IF mcode = 801 THEN "UserMCode_Normal" ELSE "UserMCode_Unsupported"

PrevValidateStatus(blk) ==
    IF blk.user_mcode = 801 THEN "Status_OK" ELSE "Status_Unhandled"

PrevValidateBlock(blk) ==
    IF blk.user_mcode = 801 THEN [blk EXCEPT !.words.p = FALSE] ELSE blk

(* ------------------------------- CHECK --------------------------------- *)
\* slip: an M-code other than 800 is refused without asking the saved handler
m800_check_NoChain(mcode) ==
    IF mcode = M800_Internal THEN "UserMCode_NoValueWords"
    ELSE "UserMCode_Unsupported"

\* when the saved pointers are the plugin's own handlers the call for another
\* M-code enters the same function with the same argument again and does
\* not return
m800_check(mcode) ==
    IF mcode = M800_Internal THEN "UserMCode_NoValueWords"
    ELSE IF user_mcode_prev = "m800" THEN "NoReturn"
    ELSE IF user_mcode_prev # "NULL" THEN PrevCheck(mcode)
    ELSE "UserMCode_Unsupported"

(* ------------------------------ VALIDATE ------------------------------- *)
\* slip: the P <= D check is missing
M800ParamsOK_NoStepCheck(blk, feed) ==
    /\ ~(blk.values.d <= 0)
    /\ ~(blk.values.q <= 0)
    /\ ~(blk.values.s <= 0)
    /\ ~(blk.values.p <= 0)
    /\ ~(blk.values.r <= 0)
    /\ ~(blk.words.l /\ blk.values.l < 1)
    /\ ~(blk.words.h /\ blk.values.h # 0 /\ blk.values.h # 1)
    /\ ~(feed <= 0)

\* slip: a zero feed rate passes (< instead of <=)
M800ParamsOK_ZeroFeed(blk, feed) ==
    /\ ~(blk.values.d <= 0)
    /\ ~(blk.values.q <= 0)
    /\ ~(blk.values.s <= 0)
    /\ ~(blk.values.p <= 0)
    /\ ~(blk.values.r <= 0)
    /\ ~(blk.values.p > blk.values.d)
    /\ ~(blk.words.l /\ blk.values.l < 1)
    /\ ~(blk.words.h /\ blk.values.h # 0 /\ blk.values.h # 1)
    /\ ~(feed < 0)

\* slip: a tool width of zero passes (< instead of <=)
M800ParamsOK_ZeroWidth(blk, feed) ==
    /\ ~(blk.values.d <= 0)
    /\ ~(blk.values.q <= 0)
    /\ ~(blk.values.s < 0)
    /\ ~(blk.values.p <= 0)
    /\ ~(blk.values.r <= 0)
    /\ ~(blk.values.p > blk.values.d)
    /\ ~(blk.words.l /\ blk.values.l < 1)
    /\ ~(blk.words.h /\ blk.values.h # 0 /\ blk.values.h # 1)
    /\ ~(feed <= 0)

\* the checks of m800_validate on an M800 block, in source order
M800ParamsOK(blk, feed) ==
    /\ ~(blk.values.d <= 0)
    /\ ~(blk.values.q <= 0)
    /\ ~(blk.values.s <= 0)
    /\ ~(blk.values.p <= 0)
    /\ ~(blk.values.r <= 0)
    /\ ~(blk.values.p > blk.values.d)
    /\ ~(blk.words.l /\ blk.values.l < 1)
    /\ ~(blk.words.h /\ blk.values.h # 0 /\ blk.values.h # 1)
    /\ ~(feed <= 0)

ValidateStatus(blk, feed) ==
    IF blk.user_mcode # M800_Internal
    THEN IF user_mcode_prev = "m800" THEN "NoReturn"
         ELSE IF user_mcode_prev # "NULL" THEN PrevValidateStatus(blk)
                                          ELSE "Status_Unhandled"
    ELSE IF M800ParamsOK(blk, feed) THEN "Status_OK"
                                    ELSE "Status_InvalidStatement"

\* the block as m800_validate leaves it
ValidateBlock(blk, feed) ==
    IF blk.user_mcode # M800_Internal
    THEN IF user_mcode_prev \notin {"NULL", "m800"} THEN PrevValidateBlock(blk)
                                                   ELSE blk
    ELSE IF M800ParamsOK(blk, feed)
         THEN [blk EXCEPT !.words = [w \in WordNames |->
                                        IF w \in M800Words THEN FALSE
                                        ELSE blk.words[w]]]
                                    ELSE blk

(* ------------------------- motion executor ----------------------------- *)
\* mc_line(target, pl_data): waits for room in the planner buffer, then
\* queues the move
mc_line(w) ==
    /\ Len(planner) < BufferSize
    /\ planner' = Append(planner, w)
    /\ issued' = Append(issued, w)

\* protocol_buffer_synchronize(): returns once the planner buffer is empty
BufferSynchronized == planner = <<>>

\* the stepper completes the block at the head of the planner buffer
st_complete ==
    /\ planner # <<>>
    /\ sys_position' = <<MMToSteps(Head(planner).X), MMToSteps(Head(planner).Z),
                         MMToSteps(Head(planner).Y)>>
    /\ planner' = Tail(planner)
    /\ UNCHANGED <<pc, line, gc_block, feed_rate, status, user_mcode_prev, M800_DEBUG, feed_checked,
                   frame, issued, stream, cycles>>

(* ------------------------- command dispatcher -------------------------- *)
Pending == Len(SelectSeq(planner, LAMBDA w : w.cycle = 0))

\* an ordinary G0 move of the program, queued ahead of the cycle
gc_motion(t) ==
    /\ pc = "idle"
    /\ Len(planner) < BufferSize
    /\ Pending < MaxPending
    /\ planner' = Append(planner, [X |-> t[X_AXIS], Z |-> t[Z_AXIS],
                                   Y |-> t[Y_AXIS], rapid |-> TRUE,
                                   feed_rate |-> 0, cycle |-> 0])
    /\ UNCHANGED <<pc, line, gc_block, feed_rate, status, user_mcode_prev, M800_DEBUG, feed_checked,
                   sys_position, frame, issued, stream, cycles>>

\* an F word sets the active feed rate
gc_set_feed(f) ==
    /\ pc = "idle"
    /\ feed_rate # f
    /\ feed_rate' = f
    /\ UNCHANGED <<pc, line, gc_block, status, user_mcode_prev, M800_DEBUG, feed_checked, sys_position,
                   planner, frame, issued, stream, cycles>>

\* the parser meets a user M-code and asks the registered check handler
gc_parse(blk) ==
    /\ pc = "idle"
    /\ cycles < MaxCycles
    /\ line' = blk
    /\ gc_block' = blk
    /\ IF m800_check(blk.user_mcode) = "NoReturn"
       THEN pc' = "hung" /\ status' = status
       ELSE IF m800_check(blk.user_mcode) = "UserMCode_Unsupported"
       THEN pc' = "done" /\ status' = "Status_GcodeUnsupportedCommand"
       ELSE pc' = "validate" /\ status' = "Status_OK"
    /\ UNCHANGED <<feed_rate, user_mcode_prev, M800_DEBUG, feed_checked, sys_position, planner,
                   frame, issued, stream, cycles>>

\* the validate handler runs; a status other than OK rejects the block
m800_validate ==
    /\ pc = "validate"
    /\ status' = IF ValidateStatus(gc_block, feed_rate) = "NoReturn"
                 THEN status ELSE ValidateStatus(gc_block, feed_rate)
    /\ gc_block' = ValidateBlock(gc_block, feed_rate)
    /\ pc' = CASE ValidateStatus(gc_block, feed_rate) = "Status_OK" -> "execute"
               [] ValidateStatus(gc_block, feed_rate) = "NoReturn" -> "hung"
               [] OTHER -> "done"
    /\ feed_checked' = IF gc_block.user_mcode = M800_Internal
                       THEN feed_rate ELSE feed_checked
    /\ UNCHANGED <<line, feed_rate, user_mcode_prev, M800_DEBUG, sys_position,
                   planner, frame, issued, stream, cycles>>

\* the block is finished, the next line is read
gc_next ==
    /\ pc = "done"
    /\ pc' = "idle"
    /\ line' = NoBlock
    /\ gc_block' = NoBlock
    /\ status' = "Status_OK"
    /\ frame' = NoFrame
    /\ issued' = <<>>
    /\ stream' = <<>>
    /\ feed_checked' = 0
    /\ UNCHANGED <<feed_rate, user_mcode_prev, M800_DEBUG, sys_position, planner,
                   cycles>>

(* ------------------------------ EXECUTE -------------------------------- *)
\* PARAMETRI: the locals of m800_execute read from the block
ReadParams(blk) ==
    [NoFrame EXCEPT !.D = blk.values.d,
                    !.Q = -blk.values.q,
                    !.W = blk.values.s,
                    !.P = blk.values.p,
                    !.R = blk.values.r,
                    !.Lreps = IF blk.words.l THEN blk.values.l ELSE 1,
                    !.return_home = (blk.values.h = 1)]

\* entry of m800_execute.  wl is the L word flag of the block the core hands
\* over: Off as m800_validate left it, or On again when the core restores
\* the flags of the words the handler claimed.  The F word of the line has
\* become the active feed rate by the time the handler is called.
m800_execute(wl) ==
    /\ pc = "execute"
    /\ wl \in {gc_block.words.l, line.words.l}
    /\ gc_block' = [gc_block EXCEPT !.words.l = wl]
    /\ feed_rate' = IF gc_block.words.f THEN gc_block.values.f ELSE feed_rate
    /\ IF gc_block.user_mcode # M800_Internal
       THEN /\ stream' = IF user_mcode_prev \notin {"NULL", "m800"}
                         THEN Append(stream, "prev.execute") ELSE stream
            /\ pc' = IF user_mcode_prev = "m800" THEN "hung" ELSE "done"
            /\ frame' = frame
       ELSE /\ frame' = ReadParams([gc_block EXCEPT !.words.l = wl])
            /\ pc' = "sync_start"
            /\ stream' = stream
    /\ UNCHANGED <<line, status, user_mcode_prev, M800_DEBUG, feed_checked,
                   sys_position, planner, issued, cycles>>

\* slip: the depth to cut is the commanded D, the sag is not added
Geometry_CommandedDepth(fr, X_start, Z_start) ==
    LET sag == X_start - d_center(X_start, fr.W)
    IN  [fr EXCEPT !.X_start = X_start,
                   !.Z_start = Z_start,
                   !.X_new_start = X_start - sag,
                   !.Dcorr = fr.D,
                   !.X_final = (X_start - sag) + (fr.D + sag),
                   !.g1_feed = feed_rate,
                   !.reads = 2,
                   !.target = <<X_start - sag, Z_start + fr.R,
                                StepBitsAsFloat(sys_position[Y_AXIS])>>]

\* slip: the final target is taken from the uncompensated start
Geometry_UncompensatedFinal(fr, X_start, Z_start) ==
    LET sag == X_start - d_center(X_start, fr.W)
    IN  [fr EXCEPT !.X_start = X_start,
                   !.Z_start = Z_start,
                   !.X_new_start = X_start - sag,
                   !.Dcorr = fr.D + sag,
                   !.X_final = X_start + (fr.D + sag),
                   !.g1_feed = feed_rate,
                   !.reads = 2,
                   !.target = <<X_start - sag, Z_start + fr.R,
                                StepBitsAsFloat(sys_position[Y_AXIS])>>]

\* SAG: the geometry computed from the captured start position
Geometry(fr, X_start, Z_start) ==
    LET sag == X_start - d_center(X_start, fr.W)
    IN  [fr EXCEPT !.X_start = X_start,
                   !.Z_start = Z_start,
                   !.X_new_start = X_start - sag,
                   !.Dcorr = fr.D + sag,
                   !.X_final = (X_start - sag) + (fr.D + sag),
                   !.g1_feed = feed_rate,
                   !.reads = 2,
                   !.target = <<X_start - sag, Z_start + fr.R,
                                StepBitsAsFloat(sys_position[Y_AXIS])>>]

\* protocol_buffer_synchronize() returned: capture the start position, write
\* the start marker, then either abort on the geometry or set up the cycle
\* slip: the abort path writes no warning
m800_start_SilentAbort ==
    /\ pc = "sync_start"
    /\ BufferSynchronized
    /\ cycles' = cycles + 1
    /\ LET X_start == StepsToMM(sys_position[X_AXIS])
           Z_start == StepsToMM(sys_position[Z_AXIS])
       IN  IF SlotExceedsBore(X_start, frame.W)
           THEN /\ stream' = M800_LOG(Append(stream, "M800 CYCLE START"),
                                      "M800 GEOMETRY")
                                 \o <<"M800 CYCLE END">>
                /\ frame' = [frame EXCEPT !.X_start = X_start,
                                          !.Z_start = Z_start,
                                          !.reads = 1]
                /\ pc' = "done"
           ELSE /\ stream' = M800_LOG(M800_LOG(M800_LOG(
                                 Append(stream, "M800 CYCLE START"),
                                 "M800 GEOMETRY"), "M800 SAG"), "M800 G0 SAG POS")
                /\ frame' = Geometry(frame, X_start, Z_start)
                /\ pc' = "prepos"
    /\ UNCHANGED <<line, gc_block, feed_rate, status, user_mcode_prev, M800_DEBUG, feed_checked,
                   sys_position, planner, issued>>

\* slip: the abort path returns without the end marker
m800_start_NoEndOnAbort ==
    /\ pc = "sync_start"
    /\ BufferSynchronized
    /\ cycles' = cycles + 1
    /\ LET X_start == StepsToMM(sys_position[X_AXIS])
           Z_start == StepsToMM(sys_position[Z_AXIS])
       IN  IF SlotExceedsBore(X_start, frame.W)
           THEN /\ stream' = M800_LOG(Append(stream, "M800 CYCLE START"),
                                      "M800 GEOMETRY")
                                 \o <<"M800: Slot width exceeds bore diameter.">>
                /\ frame' = [frame EXCEPT !.X_start = X_start,
                                          !.Z_start = Z_start,
                                          !.reads = 1]
                /\ pc' = "done"
           ELSE /\ stream' = M800_LOG(M800_LOG(M800_LOG(
                                 Append(stream, "M800 CYCLE START"),
                                 "M800 GEOMETRY"), "M800 SAG"), "M800 G0 SAG POS")
                /\ frame' = Geometry(frame, X_start, Z_start)
                /\ pc' = "prepos"
    /\ UNCHANGED <<line, gc_block, feed_rate, status, user_mcode_prev, M800_DEBUG, feed_checked,
                   sys_position, planner, issued>>

\* slip: the start position is captured without protocol_buffer_synchronize()
m800_start_NoSynchronize ==
    /\ pc = "sync_start"
    /\ cycles' = cycles + 1
    /\ LET X_start == StepsToMM(sys_position[X_AXIS])
           Z_start == StepsToMM(sys_position[Z_AXIS])
       IN  IF SlotExceedsBore(X_start, frame.W)
           THEN /\ stream' = M800_LOG(Append(stream, "M800 CYCLE START"),
                                      "M800 GEOMETRY")
                                 \o <<"M800: Slot width exceeds bore diameter.",
                                      "M800 CYCLE END">>
                /\ frame' = [frame EXCEPT !.X_start = X_start,
                                          !.Z_start = Z_start,
                                          !.reads = 1]
                /\ pc' = "done"
           ELSE /\ stream' = M800_LOG(M800_LOG(M800_LOG(
                                 Append(stream, "M800 CYCLE START"),
                                 "M800 GEOMETRY"), "M800 SAG"), "M800 G0 SAG POS")
                /\ frame' = Geometry(frame, X_start, Z_start)
                /\ pc' = "prepos"
    /\ UNCHANGED <<line, gc_block, feed_rate, status, user_mcode_prev, M800_DEBUG, feed_checked,
                   sys_position, planner, issued>>

m800_start ==
    /\ pc = "sync_start"
    /\ BufferSynchronized
    /\ cycles' = cycles + 1
    /\ LET X_start == StepsToMM(sys_position[X_AXIS])
           Z_start == StepsToMM(sys_position[Z_AXIS])
       IN  IF SlotExceedsBore(X_start, frame.W)
           THEN /\ stream' = M800_LOG(Append(stream, "M800 CYCLE START"),
                                      "M800 GEOMETRY")
                                 \o <<"M800: Slot width exceeds bore diameter.",
                                      "M800 CYCLE END">>
                /\ frame' = [frame EXCEPT !.X_start = X_start,
                                          !.Z_start = Z_start,
                                          !.reads = 1]
                /\ pc' = "done"
           ELSE /\ stream' = M800_LOG(M800_LOG(M800_LOG(
                                 Append(stream, "M800 CYCLE START"),
                                 "M800 GEOMETRY"), "M800 SAG"), "M800 G0 SAG POS")
                /\ frame' = Geometry(frame, X_start, Z_start)
                /\ pc' = "prepos"
    /\ UNCHANGED <<line, gc_block, feed_rate, status, user_mcode_prev, M800_DEBUG, feed_checked,
                   sys_position, planner, issued>>

\* PASSATE RADIALI: loop entry, passes = (int)ceilf(Dcorr / P)
EnterRadial(fr) ==
    LET n == Passes(fr.Dcorr, fr.P)
    IN  IF n >= 1 /\ fr.Lreps >= 1
        THEN [pc |-> "radial",
              fr |-> [fr EXCEPT !.passes = n, !.pass = 1, !.rep = 0, !.wp = 1]]
        ELSE [pc |-> "return",
              fr |-> [fr EXCEPT !.passes = n, !.pass = n + 1, !.wp = 0]]

\* the M800_LOG line written ahead of the next mc_line of the cycle
StrokeLabel(phase, wp) ==
    IF phase = "first"
    THEN CASE wp = 1 -> "M800 G0 SAFE (FIRST)"
           [] wp = 2 -> "M800 G1 DEPTH (FIRST)"
           [] wp = 3 -> "M800 G1 LENGTH (FIRST)"
           [] wp = 4 -> "M800 G0 BACKX (FIRST)"
           [] wp = 5 -> "M800 G0 BACKZ (FIRST)"
    ELSE CASE wp = 1 -> "M800 G0 SAFE"
           [] wp = 2 -> "M800 G1 DEPTH"
           [] wp = 3 -> "M800 G1 LENGTH"
           [] wp = 4 -> "M800 G0 BACKX"
           [] wp = 5 -> "M800 G0 BACKZ"

LogAhead(s, npc, nfr) ==
    M800_LOG(s, IF npc = "return" THEN "M800 RETURN"
                ELSE StrokeLabel(npc, nfr.wp))

\* the log lines between the end of the first pass loop and the next mc_line
LogPasses(s, npc, nfr) == LogAhead(M800_LOG(s, "M800 PASSES"), npc, nfr)

\* PRE-POSIZIONAMENTO: rapid move to the compensated start
m800_prepos ==
    /\ pc = "prepos"
    /\ mc_line(Waypoint(frame.target[X_AXIS], frame.target[Z_AXIS], TRUE, 0))
    /\ IF frame.Lreps >= 1
       THEN /\ pc' = "first"
            /\ frame' = [frame EXCEPT !.rep = 0, !.wp = 1]
            /\ stream' = LogAhead(stream, "first", [frame EXCEPT !.wp = 1])
       ELSE /\ pc' = EnterRadial(frame).pc
            /\ frame' = EnterRadial(frame).fr
            /\ stream' = LogPasses(stream, EnterRadial(frame).pc,
                                   EnterRadial(frame).fr)
    /\ UNCHANGED <<line, gc_block, feed_rate, status, user_mcode_prev, M800_DEBUG, feed_checked,
                   sys_position, cycles>>

\* slip: the stroke runs on past the slot length by the retract distance
StrokeTarget_LongStroke(fr, Xdepth) ==
    CASE fr.wp = 1 -> <<fr.X_new_start, fr.Z_start + fr.R, fr.target[Y_AXIS]>>
      [] fr.wp = 2 -> <<Xdepth, fr.Z_start + fr.R, fr.target[Y_AXIS]>>
      [] fr.wp = 3 -> <<fr.target[X_AXIS], fr.Z_start + fr.Q - fr.R,
                        fr.target[Y_AXIS]>>
      [] fr.wp = 4 -> <<fr.X_new_start, fr.target[Z_AXIS], fr.target[Y_AXIS]>>
      [] fr.wp = 5 -> <<fr.target[X_AXIS], fr.Z_start + fr.R, fr.target[Y_AXIS]>>

\* slip: the retract goes back to the safe height in the same move
StrokeTarget_DiagonalBack(fr, Xdepth) ==
    CASE fr.wp = 1 -> <<fr.X_new_start, fr.Z_start + fr.R, fr.target[Y_AXIS]>>
      [] fr.wp = 2 -> <<Xdepth, fr.Z_start + fr.R, fr.target[Y_AXIS]>>
      [] fr.wp = 3 -> <<fr.target[X_AXIS], fr.Z_start + fr.Q, fr.target[Y_AXIS]>>
      [] fr.wp = 4 -> <<fr.X_new_start, fr.Z_start + fr.R, fr.target[Y_AXIS]>>
      [] fr.wp = 5 -> <<fr.target[X_AXIS], fr.Z_start + fr.R, fr.target[Y_AXIS]>>

\* the five moves of a stroke block at plunge position Xdepth; wp counts
\* SAFE, DEPTH, LENGTH, BACKX, BACKZ
StrokeTarget(fr, Xdepth) ==
    CASE fr.wp = 1 -> <<fr.X_new_start, fr.Z_start + fr.R, fr.target[Y_AXIS]>>
      [] fr.wp = 2 -> <<Xdepth, fr.Z_start + fr.R, fr.target[Y_AXIS]>>
      [] fr.wp = 3 -> <<fr.target[X_AXIS], fr.Z_start + fr.Q, fr.target[Y_AXIS]>>
      [] fr.wp = 4 -> <<fr.X_new_start, fr.target[Z_AXIS], fr.target[Y_AXIS]>>
      [] fr.wp = 5 -> <<fr.target[X_AXIS], fr.Z_start + fr.R, fr.target[Y_AXIS]>>

\* slip: the retract in X is a feed move
StrokeRapid_FeedBack(wp) == wp \in {1, 5}

StrokeRapid(wp) == wp \in {1, 4, 5}

StrokeMove(fr, Xdepth) ==
    LET t == StrokeTarget(fr, Xdepth)
    IN  Waypoint(t[X_AXIS], t[Z_AXIS], StrokeRapid(fr.wp),
                 IF StrokeRapid(fr.wp) THEN 0 ELSE fr.g1_feed)

\* PRIMA PASSATA (NO PENETRAZIONE): one mc_line of the first pass loop
m800_first_pass ==
    /\ pc = "first"
    /\ mc_line(StrokeMove(frame, frame.X_new_start))
    /\ LET fr == [frame EXCEPT !.target = StrokeTarget(frame, frame.X_new_start)]
       IN  IF fr.wp < 5
           THEN /\ pc' = "first"
                /\ frame' = [fr EXCEPT !.wp = fr.wp + 1]
                /\ stream' = LogAhead(stream, "first", [fr EXCEPT !.wp = fr.wp + 1])
           ELSE IF fr.rep + 1 < fr.Lreps
           THEN /\ pc' = "first"
                /\ frame' = [fr EXCEPT !.rep = fr.rep + 1, !.wp = 1]
                /\ stream' = LogAhead(stream, "first", [fr EXCEPT !.wp = 1])
           ELSE /\ pc' = EnterRadial(fr).pc
                /\ frame' = EnterRadial(fr).fr
                /\ stream' = LogPasses(stream, EnterRadial(fr).pc,
                                       EnterRadial(fr).fr)
    /\ UNCHANGED <<line, gc_block, feed_rate, status, user_mcode_prev, M800_DEBUG, feed_checked,
                   sys_position, cycles>>

\* PASSATE RADIALI: one mc_line of the pass / repetition loops
m800_radial_pass ==
    /\ pc = "radial"
    /\ LET Xdepth == XTarget(frame.X_new_start, frame.P, frame.X_final, frame.pass)
           fr == [frame EXCEPT !.target = StrokeTarget(frame, Xdepth)]
       IN  /\ mc_line(StrokeMove(frame, Xdepth))
           /\ IF fr.wp < 5
              THEN /\ pc' = "radial"
                   /\ frame' = [fr EXCEPT !.wp = fr.wp + 1]
                   /\ stream' = LogAhead(stream, "radial",
                                         [fr EXCEPT !.wp = fr.wp + 1])
              ELSE IF fr.rep + 1 < fr.Lreps
              THEN /\ pc' = "radial"
                   /\ frame' = [fr EXCEPT !.rep = fr.rep + 1, !.wp = 1]
                   /\ stream' = LogAhead(stream, "radial", [fr EXCEPT !.wp = 1])
              ELSE IF fr.pass + 1 <= fr.passes
              THEN /\ pc' = "radial"
                   /\ frame' = [fr EXCEPT !.pass = fr.pass + 1, !.rep = 0, !.wp = 1]
                   /\ stream' = LogAhead(stream, "radial", [fr EXCEPT !.wp = 1])
              ELSE /\ pc' = "return"
                   /\ frame' = [fr EXCEPT !.pass = fr.pass + 1, !.wp = 0]
                   /\ stream' = LogAhead(stream, "return", fr)
    /\ UNCHANGED <<line, gc_block, feed_rate, status, user_mcode_prev, M800_DEBUG, feed_checked,
                   sys_position, cycles>>

\* slip: the return ignores H
ReturnTarget_AlwaysHome(fr) == <<fr.X_start, fr.Z_start>>

\* RITORNO FINALE
ReturnTarget(fr) ==
    IF fr.return_home THEN <<fr.X_start, fr.Z_start>>
                      ELSE <<fr.X_new_start, fr.Z_start + fr.R>>

\* slip: a feed plunge to (X_final, Z_start + R) is issued ahead of the return
m800_return_WithPlunge ==
    /\ pc = "return"
    /\ IF issued[Len(issued)].rapid
       THEN /\ mc_line(Waypoint(frame.X_final, frame.Z_start + frame.R,
                                FALSE, frame.g1_feed))
            /\ frame' = [frame EXCEPT !.target = <<frame.X_final,
                                                   frame.Z_start + frame.R,
                                                   frame.target[Y_AXIS]>>]
            /\ pc' = "return"
       ELSE /\ mc_line(Waypoint(ReturnTarget(frame)[X_AXIS],
                                ReturnTarget(frame)[Z_AXIS], TRUE, 0))
            /\ frame' = [frame EXCEPT !.target =
                             <<ReturnTarget(frame)[X_AXIS],
                               ReturnTarget(frame)[Z_AXIS], frame.target[Y_AXIS]>>]
            /\ pc' = "sync_end"
    /\ UNCHANGED <<line, gc_block, feed_rate, status, user_mcode_prev, M800_DEBUG, feed_checked,
                   sys_position, stream, cycles>>

m800_return ==
    /\ pc = "return"
    /\ mc_line(Waypoint(ReturnTarget(frame)[X_AXIS], ReturnTarget(frame)[Z_AXIS],
                        TRUE, 0))
    /\ frame' = [frame EXCEPT !.target =
                     <<ReturnTarget(frame)[X_AXIS], ReturnTarget(frame)[Z_AXIS],
                       frame.target[Y_AXIS]>>]
    /\ pc' = "sync_end"
    /\ UNCHANGED <<line, gc_block, feed_rate, status, user_mcode_prev, M800_DEBUG, feed_checked,
                   sys_position, stream, cycles>>

\* slip: the end marker is written without protocol_buffer_synchronize()
m800_end_NoSynchronize ==
    /\ pc = "sync_end"
    /\ stream' = Append(stream, "M800 CYCLE END")
    /\ pc' = "done"
    /\ UNCHANGED <<line, gc_block, feed_rate, status, user_mcode_prev, M800_DEBUG, feed_checked,
                   sys_position, planner, frame, issued, cycles>>

\* slip: the final wait tests for a buffer that still holds a move
m800_end_WaitsForMove ==
    /\ pc = "sync_end"
    /\ planner # <<>>
    /\ stream' = Append(stream, "M800 CYCLE END")
    /\ pc' = "done"
    /\ UNCHANGED <<line, gc_block, feed_rate, status, user_mcode_prev, M800_DEBUG, feed_checked,
                   sys_position, planner, frame, issued, cycles>>

\* SINCRONIZZA: the planner buffer is empty, the end marker is written
m800_end ==
    /\ pc = "sync_end"
    /\ BufferSynchronized
    /\ stream' = Append(stream, "M800 CYCLE END")
    /\ pc' = "done"
    /\ UNCHANGED <<line, gc_block, feed_rate, status, user_mcode_prev, M800_DEBUG, feed_checked,
                   sys_position, planner, frame, issued, cycles>>

(* --------------------------- specification ----------------------------- *)
Next ==
    \/ \E t \in MoveTargets : gc_motion(t)
    \/ \E f \in FeedValues : gc_set_feed(f)
    \/ \E blk \in Blocks : gc_parse(blk)
    \/ m800_validate
    \/ gc_next
    \/ \E wl \in BOOLEAN : m800_execute(wl)
    \/ m800_start
    \/ m800_prepos
    \/ m800_first_pass
    \/ m800_radial_pass
    \/ m800_return
    \/ m800_end
    \/ st_complete

Spec == Init /\ [][Next]_vars

(* ------------------------ keyway_init called again --------------------- *)
\* a further call of keyway_init: grbl.user_mcode holds the plugin's handlers
\* since the first call, and they are what the memcpy saves
keyway_init ==
    /\ pc = "idle"
    /\ user_mcode_prev' = "m800"
    /\ UNCHANGED <<pc, line, gc_block, feed_rate, status, M800_DEBUG, feed_checked,
                   sys_position, planner, frame, issued, stream, cycles>>

NextInit == Next \/ keyway_init

SpecInit == Init /\ [][NextInit]_vars

\* The same program with a stepper that keeps completing the blocks in the
\* planner buffer and a handler that keeps running: m800_execute is
\* straight-line code and loops whose only waits are mc_line on a full buffer
\* and protocol_buffer_synchronize().
FairSpec ==
    /\ Init /\ [][Next]_vars
    /\ WF_vars(st_complete)
    /\ WF_vars(m800_start)
    /\ WF_vars(m800_prepos)
    /\ WF_vars(m800_first_pass)
    /\ WF_vars(m800_radial_pass)
    /\ WF_vars(m800_return)
    /\ WF_vars(m800_end)

\* The sag computation on its own: m800_execute has read an accepted block and
\* waits at its first protocol_buffer_synchronize() with an empty planner
\* buffer, the machine standing at any bore radius up to MaxBoreSteps steps
\* and the block carrying any tool width up to MaxWidth ticks.
MaxBoreSteps == 10
MaxWidth     == 44

SagBlock(w) ==
    [user_mcode |-> M800_Internal,
     words  |-> [NoWords EXCEPT !.d = TRUE, !.q = TRUE, !.s = TRUE,
                                !.p = TRUE, !.r = TRUE],
     values |-> [NoValues EXCEPT !.d = 8, !.q = 40, !.s = w, !.p = 2, !.r = 8]]

SagInit ==
    /\ pc = "sync_start"
    /\ \E w \in 1..MaxWidth :
          /\ line = SagBlock(w)
          /\ gc_block = ValidateBlock(SagBlock(w), 5)
          /\ frame = ReadParams(SagBlock(w))
    /\ sys_position \in { <<n, 4, 0>> : n \in 1..MaxBoreSteps }
    /\ feed_rate = 5
    /\ feed_checked = 5
    /\ status = "Status_OK"
    /\ user_mcode_prev = "NULL"
    /\ M800_DEBUG = 0
    /\ planner = <<>>
    /\ issued = <<>>
    /\ stream = <<>>
    /\ cycles = 0

SagNext == m800_start

SagSpec == SagInit /\ [][SagNext]_vars

(* ------------------------- observation helpers ------------------------- *)
START == "M800 CYCLE START"
END   == "M800 CYCLE END"
SLOT_WARNING == "M800: Slot width exceeds bore diameter."

InStream(m) == \E i \in 1..Len(stream) : stream[i] = m

Last(q) == q[Len(q)]

Min(a, b) == IF a < b THEN a ELSE b

\* the cycle markers and the warning on the stream, debug lines left out
Markers == SelectSeq(stream, LAMBDA m : m \in {START, END, SLOT_WARNING})

\* the cycle ran to its end marker with motion
Completed == pc = "done" /\ Markers = <<START, END>>

\* the handler has queued no move that is still in the planner buffer
NoCycleMoveQueued == \A i \in 1..Len(planner) : planner[i].cycle = 0

\* index in issued of the first move of the radial pass blocks and of the
\* last one
FirstRadial == 2 + 5 * frame.Lreps
LastRadial  == 1 + 5 * frame.Lreps * (1 + frame.passes)

RadialIndices == { i \in 1..Len(issued) : FirstRadial <= i /\ i <= LastRadial }

\* pass number (1..passes) and position in the block (1..5) of issued[i]
PassOf(i) == ((i - FirstRadial) \div (5 * frame.Lreps)) + 1
SlotOf(i) == ((i - FirstRadial) % 5) + 1

(* ------------------------------- C1 ------------------------------------ *)
\* C1: whenever the END marker has been written and m800_execute has
\* returned, the planner buffer is empty and the machine stands at the target
\* of the last move the cycle issued: END is never visible while a move of
\* the cycle is pending.
C1_EndOnlyAfterDrain ==
    (pc = "done" /\ InStream(END)) =>
        /\ planner = <<>>
        /\ issued # <<>> =>
              sys_position = <<MMToSteps(Last(issued).X), MMToSteps(Last(issued).Z),
                               MMToSteps(Last(issued).Y)>>

C1_Witness == Completed /\ Len(issued) >= 12 /\ planner = <<>>

(* ------------------------------- C2 ------------------------------------ *)
\* C2: once a cycle has started with half the tool width above the captured
\* plunge-axis position (S > 2 * X_start), it has issued no motion command:
\* the stream holds the start marker, the warning and the end marker, the
\* handler has returned and the machine has not moved.
C2_TooWideNoMotion ==
    (InStream(START) /\ line.values.s > 2 * frame.X_start) =>
        /\ issued = <<>>
        /\ NoCycleMoveQueued
        /\ pc = "done"
        /\ Markers = <<START, SLOT_WARNING, END>>
        /\ StepsToMM(sys_position[X_AXIS]) = frame.X_start
        /\ StepsToMM(sys_position[Z_AXIS]) = frame.Z_start

C2_Witness ==
    /\ pc = "done" /\ InStream(START)
    /\ line.values.s = 60 /\ frame.X_start = 20

(* ------------------------------- C3 ------------------------------------ *)
\* C3: an M800 block that the validate handler rejected (status other than
\* OK), and in particular every block with P > D, never starts a cycle: no
\* start position is captured, nothing is written to the stream and no
\* motion command is issued or queued.
C3_RejectedNeverStarts ==
    (line.user_mcode = M800_Internal
        /\ (status # "Status_OK" \/ line.values.p > line.values.d)) =>
        /\ pc \in {"validate", "done"}
        /\ stream = <<>>
        /\ issued = <<>>
        /\ frame = NoFrame
        /\ NoCycleMoveQueued
        /\ gc_block = line

C3_Witness ==
    /\ pc = "done" /\ status = "Status_InvalidStatement"
    /\ line.values.p > line.values.d /\ line.values.d > 0
    /\ feed_rate > 0 /\ planner # <<>>

(* ------------------------------- C4 ------------------------------------ *)
\* C4: after m800_validate has run on an M800 block its status is Status_OK
\* exactly when D, Q, S, P, R > 0, P <= D, L is absent or >= 1, H is absent
\* or 0 or 1, and the active feed rate is > 0; otherwise it is
\* Status_InvalidStatement.
AcceptedByRule(blk, feed) ==
    /\ blk.values.d > 0 /\ blk.values.q > 0 /\ blk.values.s > 0
    /\ blk.values.p > 0 /\ blk.values.r > 0
    /\ blk.values.p <= blk.values.d
    /\ (~blk.words.l \/ blk.values.l >= 1)
    /\ (~blk.words.h \/ blk.values.h \in {0, 1})
    /\ feed > 0

C4_ValidateExactly ==
    (line.user_mcode = M800_Internal /\ pc \notin {"idle", "validate"}) =>
        status = IF AcceptedByRule(line, feed_checked)
                 THEN "Status_OK" ELSE "Status_InvalidStatement"

C4_Witness ==
    /\ pc = "execute" /\ line.user_mcode = M800_Internal
    /\ line.words.l /\ line.words.h /\ status = "Status_OK"

(* --------------------- geometry as the claims state it ------------------ *)
\* sag = Rbore - sqrt(Rbore^2 - (S/2)^2) for the captured start position
Sag          == frame.X_start - d_center(frame.X_start, line.values.s)
CompStart    == frame.X_start - Sag
CompDepth    == line.values.d + Sag
FinalTarget  == CompStart + CompDepth
TravelSafe   == frame.Z_start + line.values.r
TravelEnd    == frame.Z_start - line.values.q
PlungeTarget(p) == Min(CompStart + p * line.values.p, FinalTarget)

\* repetitions per level the line asks for
LineReps == IF line.words.l THEN line.values.l ELSE 1

C6_DefaultReturnsHome ==
    (Completed /\ ~line.words.h) =>
        /\ Last(issued).X = frame.X_start
        /\ Last(issued).Z = frame.Z_start

(* ------------------------------- C7 ------------------------------------ *)
\* C7: the last move of a completed cycle is a rapid move; with H value 1 its
\* target is the captured start position and the machine stands there again,
\* with H value 0 its target is (compensatedStart, Z_start + R).
C7_FinalReturn ==
    Completed =>
        /\ Last(issued).rapid
        /\ line.values.h = 1 =>
              /\ Last(issued).X = frame.X_start
              /\ Last(issued).Z = frame.Z_start
              /\ StepsToMM(sys_position[X_AXIS]) = frame.X_start
              /\ StepsToMM(sys_position[Z_AXIS]) = frame.Z_start
        /\ line.values.h = 0 =>
              /\ Last(issued).X = CompStart
              /\ Last(issued).Z = TravelSafe

C7_Witness ==
    /\ Completed /\ line.words.h /\ line.values.h = 1
    /\ Sag > 0 /\ frame.return_home

(* ------------------------------- C8 ------------------------------------ *)
\* C8: the moves of the radial pass blocks reach the executor block after
\* block, each block being Safe (rapid), Depth (feed), Length (feed),
\* BackPlunge (rapid), BackTravel (rapid) at the stated targets, the feed
\* moves carrying the active feed rate.
ExpectedStroke(p, k) ==
    CASE k = 1 -> [X |-> CompStart,       Z |-> TravelSafe, rapid |-> TRUE]
      [] k = 2 -> [X |-> PlungeTarget(p), Z |-> TravelSafe, rapid |-> FALSE]
      [] k = 3 -> [X |-> PlungeTarget(p), Z |-> TravelEnd,  rapid |-> FALSE]
      [] k = 4 -> [X |-> CompStart,       Z |-> TravelEnd,  rapid |-> TRUE]
      [] k = 5 -> [X |-> CompStart,       Z |-> TravelSafe, rapid |-> TRUE]

C8_StrokeOrder ==
    \A i \in RadialIndices :
        LET e == ExpectedStroke(PassOf(i), SlotOf(i))
        IN  /\ issued[i].X = e.X
            /\ issued[i].Z = e.Z
            /\ issued[i].rapid = e.rapid
            /\ ~e.rapid => issued[i].feed_rate = feed_rate

C8_Witness ==
    /\ Completed /\ frame.passes >= 3 /\ frame.Lreps = 2 /\ Sag > 0

(* ------------------------------- C9 ------------------------------------ *)
\* C9: the Depth move of radial pass p goes to min(compensatedStart + p*P,
\* finalTarget): exactly compensatedStart + p*P before the last pass and
\* exactly finalTarget in the last pass; no move of the cycle has a
\* plunge-axis target beyond finalTarget.
C9_PlungeClamped ==
    /\ \A i \in RadialIndices :
          SlotOf(i) = 2 =>
             /\ issued[i].X = PlungeTarget(PassOf(i))
             /\ PassOf(i) < frame.passes =>
                   issued[i].X = CompStart + PassOf(i) * line.values.p
             /\ PassOf(i) = frame.passes => issued[i].X = FinalTarget
    /\ \A i \in 1..Len(issued) : issued[i].X <= FinalTarget

C9_Witness ==
    /\ Completed /\ frame.passes >= 2
    /\ CompDepth % line.values.p # 0

C9_WitnessDivisible ==
    /\ Completed /\ frame.passes >= 2
    /\ CompDepth % line.values.p = 0

(* ------------------------------- C10 ----------------------------------- *)
\* C10: the number n of radial depth levels a completed cycle has executed is
\* the least integer with n * P >= D + sag.
LevelsExecuted == (Len(issued) - 2 - 5 * frame.Lreps) \div (5 * frame.Lreps)

C10_PassCount ==
    Completed =>
        /\ Len(issued) = 2 + 5 * frame.Lreps * (1 + LevelsExecuted)
        /\ LevelsExecuted * line.values.p >= CompDepth
        /\ (LevelsExecuted - 1) * line.values.p < CompDepth

C10_Witness ==
    /\ Completed /\ Sag > 0 /\ LevelsExecuted = 5
    /\ CompDepth % line.values.p # 0

(* ------------------------------- C11 ----------------------------------- *)
\* C11 as stated: a completed cycle has executed exactly ceil(D / P) radial
\* depth levels, D being the commanded depth of the line, and no move of the
\* cycle has a plunge-axis target beyond finalTarget.
C11_PassesFromCommandedDepth ==
    Completed =>
        /\ LevelsExecuted = CeilDiv(line.values.d, line.values.p)
        /\ \A i \in 1..Len(issued) : issued[i].X <= FinalTarget

\* C11 amended: a completed cycle has executed exactly ceil((D + sag) / P)
\* radial depth levels, which is at least ceil(D / P) and equal to it when
\* the sag is zero, and no move of the cycle has a plunge-axis target beyond
\* finalTarget.
C11_PassesFromCompensatedDepth ==
    Completed =>
        /\ LevelsExecuted = CeilDiv(line.values.d + Sag, line.values.p)
        /\ LevelsExecuted >= CeilDiv(line.values.d, line.values.p)
        /\ Sag = 0 => LevelsExecuted = CeilDiv(line.values.d, line.values.p)
        /\ \A i \in 1..Len(issued) : issued[i].X <= FinalTarget

C11_Witness ==
    /\ Completed /\ Sag = 1
    /\ LevelsExecuted = 5 /\ CeilDiv(line.values.d, line.values.p) = 4

(* ------------------------------- C12 ----------------------------------- *)
\* C12 as stated: in a completed cycle exactly one move lies between the last
\* move of the radial pass blocks and the final return, and it is a feed
\* move to (finalTarget, Z_start + R).
C12_FinalPlungeIssued ==
    Completed =>
        /\ Len(issued) = LastRadial + 2
        /\ ~issued[LastRadial + 1].rapid
        /\ issued[LastRadial + 1].X = FinalTarget
        /\ issued[LastRadial + 1].Z = TravelSafe

\* C12 amended: in a completed cycle the final return follows the BackTravel
\* move of the last radial pass block directly, no move lies between them;
\* finalTarget is reached by the Depth feed move of the last radial pass, at
\* (finalTarget, Z_start + R).
C12_ReturnFollowsLastPass ==
    Completed =>
        /\ Len(issued) = LastRadial + 1
        /\ issued[LastRadial].rapid
        /\ issued[LastRadial].X = CompStart
        /\ issued[LastRadial].Z = TravelSafe
        /\ ~issued[LastRadial - 3].rapid
        /\ issued[LastRadial - 3].X = FinalTarget
        /\ issued[LastRadial - 3].Z = TravelSafe
        /\ \A i \in 1..Len(issued) :
              (~issued[i].rapid /\ issued[i].X = FinalTarget
                               /\ issued[i].Z = TravelSafe)
                 => PassOf(i) = frame.passes /\ SlotOf(i) = 2

C12_Witness ==
    /\ Completed /\ frame.passes >= 2 /\ line.values.h = 0
    /\ Len(issued) = LastRadial + 1
    /\ issued[LastRadial - 3].X = FinalTarget

(* ------------------------------- C13 ----------------------------------- *)
\* C13: no two motion commands that a cycle issues one after the other have
\* the same target position.
C13_NoRepeatedTarget ==
    \A i \in 1..(Len(issued) - 1) :
        issued[i].X # issued[i + 1].X \/ issued[i].Z # issued[i + 1].Z

FirstViolated(blk, feed) ==
    CASE blk.values.d <= 0 -> "depth"
      [] blk.values.d > 0 /\ blk.values.q <= 0 -> "length"
      [] blk.values.d > 0 /\ blk.values.q > 0 /\ blk.values.p <= 0 -> "step"
      [] blk.values.d > 0 /\ blk.values.q > 0 /\ blk.values.p > 0
            /\ blk.values.r <= 0 -> "retract"
      [] OTHER ->
           IF blk.values.s <= 0 THEN "tool-width"
           ELSE IF blk.values.p > blk.values.d THEN "step"
           ELSE IF blk.words.l /\ blk.values.l < 1 THEN "repetitions"
           ELSE IF feed <= 0 THEN "feed"
           ELSE IF blk.words.h /\ blk.values.h \notin {0, 1} THEN "return-flag"
           ELSE "none"

\* C15: when the validate handler has rejected an M800 block, the rejection
\* carries a reason naming the first violated rule: the name of that rule
\* has been written to the stream.
C15_RejectionNamesRule ==
    (line.user_mcode = M800_Internal /\ pc = "done"
        /\ status = "Status_InvalidStatement") =>
        InStream(FirstViolated(line, feed_checked))

(* ------------------------------- C16 ----------------------------------- *)
\* C16: for an M-code other than 800 the three handlers give what the
\* handler saved in user_mcode_prev gives, and UserMCode_Unsupported,
\* Status_Unhandled and nothing when none was saved; while such a line is
\* handled no motion command is issued or queued by the plugin, no cycle
\* marker is written, and the block is as the saved handler left it
\* (unchanged when none was saved).
C16_OthersDelegated ==
    /\ \A blk \in OtherBlocks :
          /\ m800_check(blk.user_mcode) =
                IF user_mcode_prev = "NULL" THEN "UserMCode_Unsupported"
                ELSE PrevCheck(blk.user_mcode)
          /\ ValidateStatus(blk, feed_rate) =
                IF user_mcode_prev = "NULL" THEN "Status_Unhandled"
                ELSE PrevValidateStatus(blk)
          /\ ValidateBlock(blk, feed_rate) =
                IF user_mcode_prev = "NULL" THEN blk ELSE PrevValidateBlock(blk)
    /\ line \in OtherBlocks =>
          /\ pc \in {"validate", "execute", "done"}
          /\ issued = <<>>
          /\ NoCycleMoveQueued
          /\ frame = NoFrame
          /\ Markers = <<>>
          /\ pc = "done" =>
                IF user_mcode_prev # "NULL"
                   /\ PrevCheck(line.user_mcode) # "UserMCode_Unsupported"
                THEN /\ status = PrevValidateStatus(line)
                     /\ gc_block = PrevValidateBlock(line)
                     /\ stream = IF status = "Status_OK"
                                 THEN <<"prev.execute">> ELSE <<>>
                ELSE /\ status = "Status_GcodeUnsupportedCommand"
                     /\ gc_block = line
                     /\ stream = <<>>

C16_Witness ==
    /\ pc = "done" /\ line.user_mcode = 801 /\ user_mcode_prev = "prev"
    /\ stream = <<"prev.execute">> /\ planner # <<>> /\ cycles = 1

C16_WitnessNoPrev ==
    /\ pc = "done" /\ line.user_mcode = 801 /\ user_mcode_prev = "NULL"
    /\ status = "Status_GcodeUnsupportedCommand"

(* ------------------------------- C17 ----------------------------------- *)
\* C17 as stated: when a cycle has aborted on the tool width, the status the
\* dispatcher holds is not the OK status of a cycle that ran to completion.
C17_AbortSurfaced ==
    (pc = "done" /\ InStream(SLOT_WARNING)) => status # "Status_OK"

\* C17 amended: the status the dispatcher holds after an aborted cycle is
\* Status_OK, the same as after a completed one; the two differ only on the
\* stream and in the motion: the aborted cycle has written the warning
\* between the start and end markers and issued no move, the completed one
\* has written no warning and issued moves; the warning is written exactly
\* when half the tool width exceeds the captured plunge-axis position.
C17_AbortOnlyOnStream ==
    /\ (pc = "done" /\ InStream(SLOT_WARNING)) =>
          /\ status = "Status_OK"
          /\ Markers = <<START, SLOT_WARNING, END>>
          /\ issued = <<>>
    /\ Completed =>
          /\ status = "Status_OK"
          /\ issued # <<>>
          /\ line.values.s <= 2 * frame.X_start
    /\ (pc = "done" /\ InStream(START) /\ line.values.s > 2 * frame.X_start)
          => InStream(SLOT_WARNING)

C17_Witness ==
    /\ pc = "done" /\ InStream(SLOT_WARNING) /\ status = "Status_OK"
    /\ cycles = 2 /\ frame.X_start = 20

(* ------------------------------- C18 ----------------------------------- *)
\* number of times the line m has been written to the stream
Count(m) == Len(SelectSeq(stream, LAMBDA x : x = m))

\* C18: with M800_DEBUG set or not, the execution of an accepted M800 block
\* writes the start marker once and the end marker once: neither is ever on
\* the stream twice, the start marker is there before the first motion
\* command is issued and is the first line written, the end marker is the
\* last line written and once it is there the handler has returned (no
\* motion command follows it), and when the handler has returned both are
\* there.
C18_MarkersOnce ==
    /\ Count(START) <= 1
    /\ Count(END) <= 1
    /\ issued # <<>> => Count(START) = 1
    /\ Count(START) = 1 => Head(stream) = START
    /\ Count(END) = 1 => pc = "done" /\ Last(stream) = END /\ Count(START) = 1
    /\ (line.user_mcode = M800_Internal /\ status = "Status_OK" /\ pc = "done")
          => Count(START) = 1 /\ Count(END) = 1

C18_Witness ==
    /\ M800_DEBUG = 0 /\ Completed /\ stream = <<START, END>>
    /\ Len(issued) = 2 + 5 * 2 * 6

C18_WitnessDebug ==
    /\ M800_DEBUG = 1 /\ Completed /\ Len(stream) = 5 + Len(issued)

C18_WitnessAbort ==
    /\ M800_DEBUG = 1 /\ pc = "done"
    /\ stream = <<START, "M800 GEOMETRY", SLOT_WARNING, END>>

(* ------------------------------- C19 ----------------------------------- *)
\* Scenario A in ticks: D = 2 mm, slot length 10 mm, P = 0.5 mm, R = 2 mm,
\* tool width w, repetitions and return flag valid, feed rate set
ScenarioA(w) ==
    /\ line.user_mcode = M800_Internal
    /\ line.values.d = 2 * Scale /\ line.values.q = 10 * Scale
    /\ 2 * line.values.p = Scale /\ line.values.r = 2 * Scale
    /\ line.values.s = w
    /\ (~line.words.l \/ line.values.l >= 1)
    /\ (~line.words.h \/ line.values.h \in {0, 1})
    /\ feed_checked > 0

C19_WitnessPasses ==
    /\ ScenarioA(2) /\ Completed /\ Sag = 0 /\ LevelsExecuted = 4
    /\ issued[LastRadial - 3].X = 28

(* ------------------------------- C20 ----------------------------------- *)
\* C20: cycles never overlap.  Every move of a cycle in the planner buffer
\* belongs to the cycle that is running, and only while its handler is past
\* the pre-positioning call; a cycle that has captured its start position and
\* is about to issue its first move finds the buffer empty and the machine
\* standing at the captured position; between cycles no move of a cycle is
\* left in the buffer.
C20_CyclesNeverOverlap ==
    /\ \A i \in 1..Len(planner) :
          /\ planner[i].cycle \in {0, cycles}
          /\ planner[i].cycle # 0 =>
                pc \in {"first", "radial", "return", "sync_end"}
    /\ pc = "prepos" =>
          /\ planner = <<>>
          /\ issued = <<>>
          /\ StepsToMM(sys_position[X_AXIS]) = frame.X_start
          /\ StepsToMM(sys_position[Z_AXIS]) = frame.Z_start
    /\ pc \in {"idle", "validate", "execute", "sync_start", "done"} =>
          NoCycleMoveQueued

C20_Witness ==
    /\ cycles = 2 /\ pc = "first" /\ Len(planner) = 2
    /\ planner[1].cycle = 2 /\ planner[2].cycle = 2
    /\ sys_position # <<0, 0, 0>>

C20_WitnessWaits ==
    /\ cycles = 1 /\ pc = "sync_start" /\ planner # <<>>

(* ------------------------------- C21 ----------------------------------- *)
\* C21: a cycle reads the position store once, after the initial
\* synchronize, and computes its waypoints from that capture: when the first
\* waypoint is ready and nothing has moved yet, the axis the cycle does not
\* use has in it the position the capture found, in millimetres.
C21_SingleCapture ==
    /\ frame.reads <= 1
    /\ pc = "prepos" =>
          frame.target[Y_AXIS] = StepsToMM(sys_position[Y_AXIS])

(* ------------------------------- C22 ----------------------------------- *)
\* the cycle has computed its geometry (started and not aborted)
GeometryDone == InStream(START) /\ line.values.s <= 2 * frame.X_start

\* C22: for every tool width the final plunge target the cycle computes,
\* compensated start plus compensated depth, is the captured plunge position
\* plus the commanded depth D: the sag cancels.  The Depth move of the last
\* radial pass of a completed cycle goes there.
C22_SagCancels ==
    GeometryDone =>
        /\ frame.X_final = frame.X_new_start + frame.Dcorr
        /\ frame.X_final = frame.X_start + line.values.d
        /\ Completed => issued[LastRadial - 3].X = frame.X_start + line.values.d

C22_Witness ==
    /\ Completed /\ frame.Dcorr > line.values.d
    /\ frame.X_new_start < frame.X_start
    /\ issued[LastRadial - 3].X = frame.X_start + line.values.d

(* ------------------------------- C23 ----------------------------------- *)
\* sag of a tool of width W in a bore of radius R, as the cycle computes it
SagOf(R, W) == R - d_center(R, W)

\* the cycle has computed the sag for a tool narrower than the bore
SagComputed ==
    /\ pc = "prepos"
    /\ 0 < frame.W /\ frame.W < 2 * frame.X_start

CycleMoves(D, Q, W, P, R, L, home, X0, Z0, y, f) ==
    LET sag == X0 - d_center(X0, W)
        xs  == X0 - sag
        xf  == xs + (D + sag)
        n   == CeilDiv(D + sag, P)
        Move(x, z, rapid) ==
            [X |-> x, Z |-> z, Y |-> y, rapid |-> rapid,
             feed_rate |-> IF rapid THEN 0 ELSE f]
        Block(x) == << Move(xs, Z0 + R, TRUE),  Move(x, Z0 + R, FALSE),
                       Move(x, Z0 - Q, FALSE),  Move(xs, Z0 - Q, TRUE),
                       Move(xs, Z0 + R, TRUE) >>
        total == 2 + 5 * L * (1 + n)
    IN  [ i \in 1..total |->
            IF i = 1 THEN Move(xs, Z0 + R, TRUE)
            ELSE IF i = total
            THEN IF home THEN Move(X0, Z0, TRUE) ELSE Move(xs, Z0 + R, TRUE)
            ELSE Block(Min(xs + ((i - 2) \div (5 * L)) * P, xf))[((i - 2) % 5) + 1] ]

\* the sequence for the block as m800_execute received it
ExpectedMoves ==
    CycleMoves(gc_block.values.d, gc_block.values.q, gc_block.values.s,
               gc_block.values.p, gc_block.values.r,
               IF gc_block.words.l THEN gc_block.values.l ELSE 1,
               gc_block.values.h = 1,
               frame.X_start, frame.Z_start, frame.target[Y_AXIS], feed_rate)

SameCommand(a, b) ==
    /\ a.X = b.X /\ a.Z = b.Z /\ a.Y = b.Y
    /\ a.rapid = b.rapid /\ a.feed_rate = b.feed_rate

\* C24: the motion commands a cycle has issued are, in order, the first ones
\* of a sequence that is a function of the block values, the captured start
\* position and the active feed rate alone, and a completed cycle has issued
\* the whole of it; so two cycles with the same inputs issue the same
\* commands, whatever cycle ran before.
C24_SequenceDetermined ==
    /\ GeometryDone =>
          /\ Len(issued) <= Len(ExpectedMoves)
          /\ \A i \in 1..Len(issued) : SameCommand(issued[i], ExpectedMoves[i])
          /\ Completed => Len(issued) = Len(ExpectedMoves)
    /\ (InStream(START) /\ ~GeometryDone) => issued = <<>>

\* a second cycle has completed with repetitions and a return to the start
C24_Witness ==
    /\ Completed /\ cycles = 2
    /\ Len(issued) = Len(ExpectedMoves) /\ Len(issued) >= 22
    /\ Last(issued).X = frame.X_start /\ frame.X_start > frame.X_new_start

(* ------------------------------- C25 ----------------------------------- *)
\* C25: every feed move a cycle has issued carries a feed rate above 0, the
\* active feed rate m800_validate checked for the block.
C25_FeedIsCheckedFeed ==
    \A i \in 1..Len(issued) :
        ~issued[i].rapid =>
            /\ issued[i].feed_rate > 0
            /\ issued[i].feed_rate = feed_checked

(* ------------------------------- C26 ----------------------------------- *)
\* the block after m800_validate differs from the line only in the flags of
\* the seven M800 words, which are Off
OnlyWordsConsumed ==
    /\ gc_block.user_mcode = line.user_mcode
    /\ gc_block.values = line.values
    /\ \A w \in WordNames \ M800Words : gc_block.words[w] = line.words[w]
    /\ \A w \in M800Words : ~gc_block.words[w]

\* the parameters the cycle uses are the ones the line supplied
ParamsAsSupplied ==
    /\ frame.D = line.values.d /\ frame.Q = -line.values.q
    /\ frame.W = line.values.s /\ frame.P = line.values.p
    /\ frame.R = line.values.r
    /\ frame.return_home = (line.values.h = 1)

MovesOfCycle == 2 + 5 * frame.Lreps * (1 + Passes(frame.Dcorr, frame.P))

\* C27: every cycle m800_execute has entered (the block was accepted)
\* reaches, as long as the stepper keeps draining the planner buffer, the
\* state where the end marker is written and the handler has returned; the
\* cycle never has issued more motion commands than its loop bounds give;
\* and once the end marker is written the cycle issues no motion command and
\* the handler takes no further step, for completed and aborted cycles.
C27_CycleTerminates ==
    /\ (pc = "sync_start") ~> (pc = "done" /\ InStream(END))
    /\ [](GeometryDone => Len(issued) <= MovesOfCycle)
    /\ [][InStream(END) => (pc = "done" /\ issued' = issued /\ stream' = stream
                               /\ pc' \in {"done", "idle"})
                          \/ (pc' = "idle" /\ issued' = <<>>)]_vars

\* a cycle with two repetitions per level has ended
C27_Witness ==
    /\ pc = "done" /\ InStream(END) /\ Len(issued) = MovesOfCycle
    /\ frame.Lreps = 2 /\ Len(issued) >= 42 /\ planner = <<>>

C27_WitnessAbort ==
    /\ pc = "done" /\ InStream(END) /\ InStream(SLOT_WARNING) /\ issued = <<>>
    /\ frame.W > 2 * frame.X_start

(* ------------------------------- C28 ----------------------------------- *)
\* C28: every motion command a cycle has issued, the pre-positioning move
\* and the final return with H 0 and H 1 among them, has its plunge-axis
\* target in [compensatedStart, finalTarget] and its travel-axis target in
\* [Z_start - Q, Z_start + R].
C28_InsideEnvelope ==
    \A i \in 1..Len(issued) :
        /\ CompStart <= issued[i].X /\ issued[i].X <= FinalTarget
        /\ TravelEnd <= issued[i].Z /\ issued[i].Z <= TravelSafe

\* a completed cycle that returned to the captured start, inside the
\* envelope, after touching its far corner
C28_Witness ==
    /\ Completed /\ line.values.h = 1 /\ Sag > 0
    /\ Last(issued).X = frame.X_start /\ Last(issued).Z = frame.Z_start
    /\ CompStart < frame.X_start /\ frame.Z_start < TravelSafe
    /\ \E i \in 1..Len(issued) :
          issued[i].X = FinalTarget /\ issued[i].Z = TravelEnd

C28_WitnessH0 ==
    /\ Completed /\ line.values.h = 0
    /\ Last(issued).X = CompStart /\ Last(issued).Z = TravelSafe
    /\ \E i \in 1..Len(issued) :
          issued[i].X = FinalTarget /\ issued[i].Z = TravelEnd

(* ------------------------------- C29 ----------------------------------- *)
\* the commands of the stroke blocks (zero-penetration and radial): all but
\* the pre-positioning move and the final return
BlockIndices == { i \in 2..Len(issued) : i <= MovesOfCycle - 1 }

\* C29: for every command of a stroke block, compared with the command
\* before it: if it moves the plunge axis deeper it is a feed move at
\* Z_start + R; if it retracts the plunge axis it is a rapid move at
\* Z_start - Q to compensatedStart; if it is rapid its plunge target is
\* compensatedStart; and it changes at most one of the axes.
C29_DepthChangesAtStrokeEnds ==
    \A i \in BlockIndices :
        LET c == issued[i]
            b == issued[i - 1]
        IN  /\ c.X > b.X => (~c.rapid /\ c.feed_rate = frame.g1_feed
                                /\ b.Z = TravelSafe /\ c.Z = TravelSafe)
            /\ c.X < b.X => (c.rapid /\ b.Z = TravelEnd /\ c.Z = TravelEnd
                                /\ c.X = CompStart)
            /\ c.rapid => c.X = CompStart
            /\ Cardinality({ a \in {"X", "Z", "Y"} : c[a] # b[a] }) <= 1

\* a completed cycle with plunges and retracts of several depths
C29_Witness ==
    /\ Completed /\ frame.passes >= 3
    /\ \E i \in BlockIndices : issued[i].X > issued[i - 1].X + line.values.p
    /\ \E i \in BlockIndices : issued[i].X < issued[i - 1].X - line.values.p
    /\ Len(issued) - 1 = MovesOfCycle - 1

(* ------------------------------- C30 ----------------------------------- *)
\* C30: however often keyway_init has been called, the saved previous
\* handlers are never the plugin's own, and no call of m800_check,
\* m800_validate or m800_execute for an M-code other than 800 fails to
\* return; a block with such a code that has been through the handlers has
\* been answered by the handlers registered before the first call.
C30_InitRepeatable ==
    /\ user_mcode_prev # "m800"
    /\ pc # "hung"
    /\ (pc = "done" /\ line.user_mcode \notin {0, M800_Internal}) =>
          IF user_mcode_prev = "NULL"
                \/ PrevCheck(line.user_mcode) = "UserMCode_Unsupported"
          THEN status = "Status_GcodeUnsupportedCommand" /\ stream = <<>>
          ELSE status = PrevValidateStatus(line)

====
